---------------------------- MODULE Spec2Model ----------------------------
(***************************************************************************)
(* SkillGenome X backend: the bot filter, the skill co-occurrence graph,   *)
(* the regional clustering, the trend forecast, and the FastAPI            *)
(* application that serves them from the in-memory dataset.                *)
(*                                                                         *)
(* Strings are sequences of one-character strings, so that split, strip,   *)
(* lower and the code-point ordering used by sorted() are computed.        *)
(* Floating point values are exact rationals [num, den] (den > 0).         *)
(***************************************************************************)
EXTENDS Integers, Sequences, FiniteSets, TLC

VARIABLES
    csv,          \* rows of the file at DATA_PATH (read by ingest_csv)
    df,           \* main.py's global df (None before startup), or the
                  \* dataframe handed to a service function
    config,       \* the config object handed to apply_bot_filter
    bot_out,      \* last return value of apply_bot_filter
    graph_out,    \* last return value of build_skill_graph / skill_graph
    cluster_out,  \* last return value of cluster_regions / regional_clusters
    trend_out,    \* last return value of forecast_skill / skill_trend
    overview_out  \* last return value of get_overview

vars == <<csv, df, config, bot_out, graph_out, cluster_out, trend_out, overview_out>>

None == [none |-> TRUE]
\* main.py's df before startup_event has run
NoDataFrame == <<None>>

-----------------------------------------------------------------------------
(* Bounds of the model.                                                    *)

MaxBotRecords == 3
MaxGraphRecords == 3
MaxClusterRecords == 3
MaxTrendRecords == 3
MaxCsvRows == 2

-----------------------------------------------------------------------------
(* Generic helpers.                                                        *)

Max(a, b) == IF a >= b THEN a ELSE b
Min(a, b) == IF a <= b THEN a ELSE b

Range(s) == {s[i] : i \in DOMAIN s}

RECURSIVE SeqsUpTo(_, _)
SeqsUpTo(S, n) ==
    IF n = 0 THEN {<<>>}
    ELSE LET shorter == SeqsUpTo(S, n - 1)
         IN shorter \cup {Append(s, x) : s \in {t \in shorter : Len(t) = n - 1}, x \in S}

\* Rationals
Rat(n, d) == [num |-> n, den |-> d]
RatGT(a, b) == a.num * b.den > b.num * a.den
RatGE(a, b) == a.num * b.den >= b.num * a.den
RatEQ(a, b) == a.num * b.den = b.num * a.den

\* pandas' missing values
NA == <<"<NA>">>
NaT == [valid |-> FALSE, day |-> 0, hour |-> 0]
TS(d, h) == [valid |-> TRUE, day |-> d, hour |-> h]

-----------------------------------------------------------------------------
(* Python str operations.                                                  *)

\* The characters of the model in code-point order.
CharOrder == <<" ", ";", "A", "B", "E", "N", "S", "a", "b", "c", "d", "e", "f",
               "g", "h", "i", "j", "k", "l", "n", "s", "z">>

Ord(c) == CHOOSE i \in DOMAIN CharOrder : CharOrder[i] = c

\* s < t for Python strings: lexicographic by code point
RECURSIVE StrLess(_, _)
StrLess(s, t) ==
    IF t = <<>> THEN FALSE
    ELSE IF s = <<>> THEN TRUE
    ELSE IF Head(s) = Head(t) THEN StrLess(Tail(s), Tail(t))
    ELSE Ord(Head(s)) < Ord(Head(t))

IsSpace(c) == c = " "

RECURSIVE lstrip(_)
lstrip(s) == IF s # <<>> /\ IsSpace(Head(s)) THEN lstrip(Tail(s)) ELSE s

RECURSIVE rstrip(_)
rstrip(s) ==
    IF s # <<>> /\ IsSpace(s[Len(s)]) THEN rstrip(SubSeq(s, 1, Len(s) - 1)) ELSE s

\* str.strip()
strip(s) == rstrip(lstrip(s))

\* str.lower()
UpperCase == <<"A", "B", "E", "N", "S">>
LowerCase == <<"a", "b", "e", "n", "s">>
LowerChar(c) ==
    IF c \in Range(UpperCase)
    THEN LowerCase[CHOOSE i \in DOMAIN UpperCase : UpperCase[i] = c]
    ELSE c
lower(s) == [i \in DOMAIN s |-> LowerChar(s[i])]

\* str.split(sep): the pieces between separators, empty pieces kept
RECURSIVE SplitFrom(_, _, _, _)
SplitFrom(s, sep, i, cur) ==
    IF i > Len(s) THEN <<cur>>
    ELSE IF s[i] = sep THEN <<cur>> \o SplitFrom(s, sep, i + 1, <<>>)
    ELSE SplitFrom(s, sep, i + 1, Append(cur, s[i]))

split(s, sep) == SplitFrom(s, sep, 1, <<>>)

\* re.sub(r"\s+", " ", s)
RECURSIVE CollapseSpaces(_)
CollapseSpaces(s) ==
    IF s = <<>> THEN <<>>
    ELSE IF IsSpace(Head(s))
         THEN <<" ">> \o CollapseSpaces(lstrip(s))
         ELSE <<Head(s)>> \o CollapseSpaces(Tail(s))

\* the distinct values of a sequence in order of first appearance
FirstOccurrences(s) ==
    LET idx == SelectSeq([i \in DOMAIN s |-> i],
                         LAMBDA i : \A j \in 1..(i - 1) : s[j] # s[i])
    IN [k \in DOMAIN idx |-> s[idx[k]]]

-----------------------------------------------------------------------------
(* services/bot_filter.py                                                  *)

\* _normalize_text on one value; a missing text stays missing
normalize_text(t) ==
    IF t = NA THEN NA ELSE CollapseSpaces(strip(lower(t)))

\* ts.dt.floor("D"); NaT stays NaT
FloorDay(ts) == IF ts.valid THEN TS(ts.day, 0) ELSE NaT

RowsOf(d, u) == SelectSeq(d, LAMBDA r : r.user_id = u)

\* Series.nunique(): distinct values, missing ones not counted
RECURSIVE NUnique(_, _)
NUnique(s, missing) ==
    IF s = <<>> THEN 0
    ELSE LET rest == SubSeq(s, 1, Len(s) - 1)
             x == s[Len(s)]
         IN NUnique(rest, missing)
              + (IF x = missing \/ x \in Range(rest) THEN 0 ELSE 1)

\* per-user metrics, lines 76-90
total_posts(d, u) == Len(RowsOf(d, u))
active_days(d, u) ==
    LET rows == RowsOf(d, u)
    IN Max(NUnique([i \in DOMAIN rows |-> FloorDay(rows[i].timestamp)], NaT), 1)
posts_per_day(d, u) == Rat(total_posts(d, u), active_days(d, u))
unique_texts(d, u) ==
    LET rows == RowsOf(d, u)
    IN NUnique([i \in DOMAIN rows |-> normalize_text(rows[i].raw_text)], NA)
duplicate_text_ratio(d, u) ==
    LET n == Max(total_posts(d, u), 1)
    IN Rat(n - unique_texts(d, u), n)

\* the bot decision of lines 99-101 with >= for >
BotDecisionAtLeast(ppd, ratio, cfg) ==
    RatGE(ppd, cfg.BOT_POSTS_PER_DAY_THRESHOLD)
      \/ RatGE(ratio, cfg.BOT_DUPLICATE_TEXT_THRESHOLD)

\* lines 99-101
BotDecision(ppd, ratio, cfg) ==
    RatGT(ppd, cfg.BOT_POSTS_PER_DAY_THRESHOLD)
      \/ RatGT(ratio, cfg.BOT_DUPLICATE_TEXT_THRESHOLD)

\* the row filter of line 114 keeping the flagged rows instead
KeepFlaggedRows(rows) == SelectSeq(rows, LAMBDA r : r.is_bot)

\* line 114: cleaned_df = df.loc[~df["is_bot"]]
DropBotRows(rows) == SelectSeq(rows, LAMBDA r : ~r.is_bot)

\* round(x, 2) of a non-negative rational, in hundredths (half to even)
RoundHundredths(x) ==
    LET n == 100 * x.num
        q == n \div x.den
        r == n % x.den
    IN IF 2 * r > x.den \/ (2 * r = x.den /\ q % 2 = 1) THEN q + 1 ELSE q

\* the columns apply_bot_filter adds to its copy of df
AddedColumns == {"posts_per_day", "duplicate_text_ratio", "is_bot", "trust_score"}

apply_bot_filter(d, cfg) ==
    LET marked == [i \in DOMAIN d |->
            LET u == d[i].user_id
                ppd == posts_per_day(d, u)
                ratio == duplicate_text_ratio(d, u)
                bot == BotDecision(ppd, ratio, cfg)
            IN [posts_per_day |-> ppd, duplicate_text_ratio |-> ratio,
                is_bot |-> bot,
                trust_score |-> IF bot THEN Rat(2, 10) ELSE Rat(10, 10)] @@ d[i]]
        total_users == Cardinality({d[i].user_id : i \in DOMAIN d})
        bots_detected ==
            Cardinality({marked[i].user_id : i \in {j \in DOMAIN d : marked[j].is_bot}})
    IN [marked |-> marked,
        cleaned_df |-> DropBotRows(marked),
        stats |-> [total_users |-> total_users,
                   bots_detected |-> bots_detected,
                   percent_removed_hundredths |->
                       IF total_users # 0
                       THEN RoundHundredths(Rat(100 * bots_detected, total_users))
                       ELSE 0]]

\* a row of the output without the added columns
InputColumns(r) == [c \in DOMAIN r \ AddedColumns |-> r[c]]

Row(u, reg, ts, text, tags) ==
    [user_id |-> u, region |-> reg, timestamp |-> ts, raw_text |-> text,
     skill_tags |-> tags]

-----------------------------------------------------------------------------
(* apply_bot_filter on bounded inputs.                                     *)

BotTimestamps == {TS(0, 0), TS(0, 12), TS(1, 0)}
BotTexts == {<<"a", " ", "b">>, <<" ", "A", " ", " ", "b">>, <<"b">>}

BotRows ==
    {Row("u1", <<"N">>, ts, t, <<"a">>) : ts \in BotTimestamps, t \in BotTexts}
      \cup {Row("u2", <<"N">>, TS(0, 0), t, <<"a">>) : t \in BotTexts}
      \cup {Row("u1", <<"N">>, NaT, <<"b">>, <<"a">>),
            Row("u1", <<"N">>, TS(0, 0), NA, <<"a">>)}

BotConfigs ==
    {[BOT_POSTS_PER_DAY_THRESHOLD |-> p, BOT_DUPLICATE_TEXT_THRESHOLD |-> q] :
        p \in {Rat(2, 1), Rat(1, 1)}, q \in {Rat(1, 2), Rat(2, 3)}}

NoOutputs ==
    /\ bot_out = None
    /\ graph_out = None
    /\ cluster_out = None
    /\ trend_out = None
    /\ overview_out = None

InitBot ==
    /\ csv = <<>>
    /\ df \in SeqsUpTo(BotRows, MaxBotRecords)
    /\ config \in BotConfigs
    /\ NoOutputs

CallApplyBotFilter ==
    /\ bot_out' = apply_bot_filter(df, config)
    /\ UNCHANGED <<csv, df, config, graph_out, cluster_out, trend_out, overview_out>>

NextBot == CallApplyBotFilter

SpecBot == InitBot /\ [][NextBot]_vars

\* C1: apply_bot_filter flags a user exactly when the user's records divided
\* by the user's distinct calendar days (at least 1) is strictly greater than
\* the posts-per-day threshold, or 1 minus distinct normalized texts divided
\* by the user's records is strictly greater than the duplicate threshold;
\* a metric equal to its threshold does not flag.
UsersOf(d) == {d[i].user_id : i \in DOMAIN d}
RecordsOfUser(u) == {i \in DOMAIN df : df[i].user_id = u}
DaysOfUser(u) ==
    {df[i].timestamp.day : i \in {j \in RecordsOfUser(u) : df[j].timestamp.valid}}
TextsOfUser(u) ==
    {normalize_text(df[i].raw_text) : i \in RecordsOfUser(u)} \ {NA}
ExceedsPostsPerDay(u) ==
    Cardinality(RecordsOfUser(u)) * config.BOT_POSTS_PER_DAY_THRESHOLD.den
      > config.BOT_POSTS_PER_DAY_THRESHOLD.num * Max(Cardinality(DaysOfUser(u)), 1)
ExceedsDuplicateRatio(u) ==
    (Cardinality(RecordsOfUser(u)) - Cardinality(TextsOfUser(u)))
        * config.BOT_DUPLICATE_TEXT_THRESHOLD.den
      > config.BOT_DUPLICATE_TEXT_THRESHOLD.num * Cardinality(RecordsOfUser(u))
FlaggedUsers == {bot_out.marked[i].user_id : i \in {j \in DOMAIN bot_out.marked : bot_out.marked[j].is_bot}}
C1_BotIffExceedsThreshold ==
    bot_out # None =>
        /\ \A u \in UsersOf(df) :
              u \in FlaggedUsers <=> (ExceedsPostsPerDay(u) \/ ExceedsDuplicateRatio(u))
        /\ \A i \in DOMAIN bot_out.marked :
              bot_out.marked[i].is_bot <=> bot_out.marked[i].user_id \in FlaggedUsers

\* a user at exactly the posts-per-day threshold is kept while another user
\* above it is flagged
C1_Witness ==
    /\ bot_out # None
    /\ \E u \in UsersOf(df) :
          /\ u \notin FlaggedUsers
          /\ RatEQ(Rat(Cardinality(RecordsOfUser(u)), Max(Cardinality(DaysOfUser(u)), 1)),
                   config.BOT_POSTS_PER_DAY_THRESHOLD)
    /\ \E u \in UsersOf(df) : u \in FlaggedUsers /\ ~ExceedsDuplicateRatio(u)

\* C2: the cleaned record set is exactly the input records of the users that
\* are not flagged, each once and in input order; no user is kept in part.
C2_CleanedIsNonBotRecords ==
    bot_out # None =>
        [i \in DOMAIN bot_out.cleaned_df |-> InputColumns(bot_out.cleaned_df[i])]
            = SelectSeq(df, LAMBDA r : r.user_id \notin FlaggedUsers)

\* one user's records are all removed and another user's are all kept
C2_Witness ==
    /\ bot_out # None
    /\ FlaggedUsers # {}
    /\ bot_out.cleaned_df # <<>>
    /\ Len(bot_out.cleaned_df) < Len(df)

-----------------------------------------------------------------------------
(* services/graph_build.py                                                 *)

\* the tenth entry ends both top lists: sorted(...)[:10]
TopN == 10

\* df["skill_tags"].dropna()
DropNA(col) == SelectSeq(col, LAMBDA t : t # NA)

SkillTagsColumn(d) == [i \in DOMAIN d |-> d[i].skill_tags]

\* [s.strip() for s in tags.split(";") if s.strip()]
ParseTags(tags) ==
    LET parts == split(tags, ";")
        stripped == [i \in DOMAIN parts |-> strip(parts[i])]
    IN SelectSeq(stripped, LAMBDA t : t # <<>>)

\* sorted(S) for a set of strings
RECURSIVE SortedStrings(_)
SortedStrings(S) ==
    IF S = {} THEN <<>>
    ELSE LET m == CHOOSE x \in S : \A y \in S \ {x} : StrLess(x, y)
         IN <<m>> \o SortedStrings(S \ {m})

\* the tag list of line 26 taken as it is, without line 27
SkillsInListOrder(tags) == ParseTags(tags)

\* lines 26-27: sorted(set(skills))
SortedSkillSet(tags) == SortedStrings(Range(ParseTags(tags)))

\* itertools.combinations(skills, 2), in the order it yields
RECURSIVE Combinations2(_)
Combinations2(s) ==
    IF Len(s) < 2 THEN <<>>
    ELSE [j \in 1..(Len(s) - 1) |-> <<s[1], s[j + 1]>>] \o Combinations2(Tail(s))

\* the pairs of every record one after the other, lines 25-28
RECURSIVE PairStream(_)
PairStream(column) ==
    IF column = <<>> THEN <<>>
    ELSE PairStream(SubSeq(column, 1, Len(column) - 1))
           \o Combinations2(SortedSkillSet(column[Len(column)]))

Occurrences(s, x) == Cardinality({i \in DOMAIN s : s[i] = x})

\* pair_counts after the loop of lines 25-29: a Counter keeps its keys in the
\* order of their first increment
CountPairs(column) ==
    LET stream == PairStream(column)
        keys == FirstOccurrences(stream)
    IN [k \in DOMAIN keys |-> [pair |-> keys[k], w |-> Occurrences(stream, keys[k])]]

\* lines 31-33 with the pairs counted once left out
AddEdgesCountedTwice(counter) ==
    LET kept == SelectSeq(counter, LAMBDA e : e.w > 1)
        endpoints == [k \in 1..(2 * Len(kept)) |->
                         kept[(k + 1) \div 2].pair[IF k % 2 = 1 THEN 1 ELSE 2]]
        nodes == FirstOccurrences(endpoints)
    IN [nodes |-> nodes,
        adj |-> [n \in Range(nodes) |->
                    LET inc == SelectSeq(kept, LAMBDA e : n = e.pair[1] \/ n = e.pair[2])
                    IN [k \in DOMAIN inc |->
                           IF inc[k].pair[1] = n THEN inc[k].pair[2] ELSE inc[k].pair[1]]],
        weight |-> [e \in {{kept[k].pair[1], kept[k].pair[2]} : k \in DOMAIN kept} |->
                      LET k == CHOOSE k \in DOMAIN kept :
                                   e = {kept[k].pair[1], kept[k].pair[2]}
                      IN kept[k].w]]

\* networkx.Graph after lines 31-33, one add_edge(a, b, weight=w) per key of
\* pair_counts: add_edge appends a, then b, to the nodes when new, and appends
\* each endpoint to the other's adjacency. The graph holds its nodes in
\* insertion order, each node's neighbours in insertion order, and the weight
\* attribute of each edge.
AddEdges(counter) ==
    LET endpoints == [k \in 1..(2 * Len(counter)) |->
                         counter[(k + 1) \div 2].pair[IF k % 2 = 1 THEN 1 ELSE 2]]
        nodes == FirstOccurrences(endpoints)
    IN [nodes |-> nodes,
        adj |-> [n \in Range(nodes) |->
                    LET inc == SelectSeq(counter, LAMBDA e : n = e.pair[1] \/ n = e.pair[2])
                    IN FirstOccurrences([k \in DOMAIN inc |->
                           IF inc[k].pair[1] = n THEN inc[k].pair[2] ELSE inc[k].pair[1]])],
        weight |-> [e \in {{counter[k].pair[1], counter[k].pair[2]} : k \in DOMAIN counter} |->
                      LET same == {k \in DOMAIN counter :
                                      e = {counter[k].pair[1], counter[k].pair[2]}}
                          last == CHOOSE k \in same : \A k2 \in same : k2 <= k
                      IN counter[last].w]]

NodeIndex(G, n) == CHOOSE i \in DOMAIN G.nodes : G.nodes[i] = n

\* G.degree(): (node, degree) in node order
Degree(G) == [i \in DOMAIN G.nodes |->
                 [skill |-> G.nodes[i], degree |-> Len(G.adj[G.nodes[i]])]]

\* G.edges(): every node in node order with its neighbours that were not
\* visited before it
RECURSIVE EdgesUpTo(_, _)
EdgesUpTo(G, i) ==
    IF i = 0 THEN <<>>
    ELSE LET n == G.nodes[i]
             nbrs == SelectSeq(G.adj[n], LAMBDA m : NodeIndex(G, m) >= i)
         IN EdgesUpTo(G, i - 1)
              \o [j \in DOMAIN nbrs |->
                    [skill_1 |-> n, skill_2 |-> nbrs[j], weight |-> G.weight[{n, nbrs[j]}]]]

Edges(G) == EdgesUpTo(G, Len(G.nodes))

\* a sort that puts the later of two equal keys first
LaterFirstOnTies(items, i, j) == i > j

\* sorted(items, key=lambda x: -key(x)) is stable: equal keys stay in input order
StableOnTies(items, i, j) == i < j

\* the place of items[i] in sorted(items, key=lambda x: -x.key)
SortedPlace(items, i) ==
    1 + Cardinality({j \in DOMAIN items :
            \/ items[j].key > items[i].key
            \/ (items[j].key = items[i].key /\ StableOnTies(items, j, i))})

SortedByKeyDesc(items) ==
    [p \in DOMAIN items |-> items[CHOOSE i \in DOMAIN items : SortedPlace(items, i) = p]]

\* seq[:n]
Take(s, n) == SubSeq(s, 1, Min(n, Len(s)))

build_skill_graph(d) ==
    LET pair_counts == CountPairs(DropNA(SkillTagsColumn(d)))
        G == AddEdges(pair_counts)
        degs == Degree(G)
        edges == Edges(G)
        byDegree == SortedByKeyDesc([i \in DOMAIN degs |->
                        [key |-> degs[i].degree, item |-> degs[i]]])
        byWeight == SortedByKeyDesc([i \in DOMAIN edges |->
                        [key |-> edges[i].weight, item |-> edges[i]]])
        top_s == Take(byDegree, TopN)
        top_p == Take(byWeight, TopN)
    IN [G |-> G,
        top_skills |-> [i \in DOMAIN top_s |-> top_s[i].item],
        top_pairs |-> [i \in DOMAIN top_p |-> top_p[i].item]]

-----------------------------------------------------------------------------
(* build_skill_graph on bounded inputs.                                    *)

\* four records that together hold more than TopN skills and more than TopN
\* co-occurring pairs
Crowd ==
    << Row("u1", <<"N">>, TS(0, 0), <<"a">>, <<"e", ";", "f", ";", "g", ";", "h">>),
       Row("u1", <<"N">>, TS(0, 0), <<"a">>, <<"i", ";", "j", ";", "k">>),
       Row("u1", <<"N">>, TS(0, 0), <<"a">>, <<"l", ";", "c", ";", "d">>),
       Row("u1", <<"N">>, TS(0, 0), <<"a">>, <<"z", ";", "b">>) >>

GraphTags ==
    { <<"a", ";", "b">>,
      <<" ", "b", " ", ";", ";", " ", "a", ";", "a">>,
      <<"a", ";", "c">>,
      <<"z">>,
      <<"z", ";", "a">>,
      <<"b", ";", "a", "b">>,
      NA }

GraphRows == {Row("u1", <<"N">>, TS(0, 0), <<"a">>, t) : t \in GraphTags}

InitGraph ==
    /\ csv = <<>>
    /\ df \in {prefix \o rest : prefix \in {<<>>, Crowd},
                                rest \in SeqsUpTo(GraphRows, MaxGraphRecords)}
    /\ config = None
    /\ NoOutputs

CallBuildSkillGraph ==
    /\ graph_out' = build_skill_graph(df)
    /\ UNCHANGED <<csv, df, config, bot_out, cluster_out, trend_out, overview_out>>

NextGraph == CallBuildSkillGraph

SpecGraph == InitGraph /\ [][NextGraph]_vars

-----------------------------------------------------------------------------
(* services/clustering.py                                                  *)

\* nlargest(5) and [:5]
TopPerCluster == 5

\* lines 22-26: one (region, skill) row per piece of every tag list, pieces
\* stripped, empty pieces dropped
ExplodeRow(r) ==
    IF r.skill_tags = NA THEN <<>>
    ELSE LET skills == ParseTags(r.skill_tags)
         IN [i \in DOMAIN skills |-> [region |-> r.region, skill |-> skills[i]]]

RECURSIVE Explode(_)
Explode(d) ==
    IF d = <<>> THEN <<>>
    ELSE Explode(SubSeq(d, 1, Len(d) - 1)) \o ExplodeRow(d[Len(d)])

\* line 32: the region x skill frequency matrix; groupby sorts its keys
FrequencyMatrix(exp) ==
    LET index == SortedStrings({exp[i].region : i \in DOMAIN exp})
        columns == SortedStrings({exp[i].skill : i \in DOMAIN exp})
    IN [index |-> index,
        columns |-> columns,
        count |-> [reg \in Range(index) |-> [sk \in Range(columns) |->
                     Cardinality({i \in DOMAIN exp :
                                    exp[i].region = reg /\ exp[i].skill = sk})]]]

\* line 35: k = min(n_clusters, len(mat))
CappedClusters(n_clusters, mat) == Min(n_clusters, Len(mat.index))

\* What KMeans(n_clusters=k).fit_predict(mat) can return: one label in
\* 0..k-1 per row, equal rows labelled alike. Which of these labellings the
\* library picks is left open.
KMeansLabellings(mat, k) ==
    {l \in [Range(mat.index) -> 0..(k - 1)] :
        \A r1 \in Range(mat.index), r2 \in Range(mat.index) :
            mat.count[r1] = mat.count[r2] => l[r1] = l[r2]}

RECURSIVE SumOver(_, _)
SumOver(f, S) ==
    IF S = {} THEN 0
    ELSE LET x == CHOOSE x \in S : TRUE IN f[x] + SumOver(f, S \ {x})

\* lines 41-49: the 5 largest summed skill counts of cluster c, zero counts
\* left out; nlargest keeps the column order among equal counts
TopSkillsOfCluster(mat, labels, c) ==
    LET members == {r \in Range(mat.index) : labels[r] = c}
        total == [sk \in Range(mat.columns) |->
                     SumOver([r \in members |-> mat.count[r][sk]], members)]
        ranked == SortedByKeyDesc([i \in DOMAIN mat.columns |->
                     [key |-> total[mat.columns[i]], item |-> mat.columns[i]]])
        top == SelectSeq(Take(ranked, TopPerCluster), LAMBDA e : e.key > 0)
    IN [i \in DOMAIN top |-> top[i].item]

\* lines 52-59
ClusterResult(mat, labels) ==
    [i \in DOMAIN mat.index |->
        [region |-> mat.index[i],
         cluster_id |-> labels[mat.index[i]],
         top_skills |-> TopSkillsOfCluster(mat, labels, labels[mat.index[i]])]]

\* Every outcome of cluster_regions(d, n_clusters): the list it returns, or
\* the exception KMeans raises for n_clusters < 1.
cluster_regions(d, n_clusters) ==
    LET exp == Explode(d)
        mat == FrequencyMatrix(exp)
        k == CappedClusters(n_clusters, mat)
    IN IF d = <<>> \/ exp = <<>>
       THEN {[raised |-> FALSE, k |-> 0, result |-> <<>>]}
       ELSE IF k < 1
       THEN {[raised |-> TRUE, k |-> k, result |-> <<>>]}
       ELSE {[raised |-> FALSE, k |-> k, result |-> ClusterResult(mat, l)] :
                l \in KMeansLabellings(mat, k)}

-----------------------------------------------------------------------------
(* cluster_regions on bounded inputs.                                      *)

ClusterRegions == {<<"N">>, <<"S">>, <<"E">>}
ClusterTags == {<<"a">>, <<"b", ";", " ", "b", ";", "a">>, <<>>}
ClusterRows == {Row("u1", reg, TS(0, 0), <<"a">>, t) : reg \in ClusterRegions, t \in ClusterTags}
ClusterCounts == {0, 1, 2, 3}

InitCluster ==
    /\ csv = <<>>
    /\ df \in SeqsUpTo(ClusterRows, MaxClusterRecords)
    /\ config = None
    /\ NoOutputs

CallClusterRegions ==
    /\ \E n \in ClusterCounts :
         \E out \in cluster_regions(df, n) :
            cluster_out' = [n_clusters |-> n, raised |-> out.raised, k |-> out.k,
                            result |-> out.result]
    /\ UNCHANGED <<csv, df, config, bot_out, graph_out, trend_out, overview_out>>

NextCluster == CallClusterRegions

SpecCluster == InitCluster /\ [][NextCluster]_vars

-----------------------------------------------------------------------------
(* services/forecasting.py                                                 *)

\* _empty_result()
empty_result == [historical |-> <<>>, forecast |-> <<>>, trend |-> "stable"]

\* has_skill, lines 27-30, with skill already stripped
has_skill(tags, skill) ==
    IF tags = NA THEN FALSE ELSE skill \in Range(ParseTags(tags))

\* The label of the weekly bin of a timestamp under resample("W",
\* label="left"). Days are counted from a Sunday (day 0). "W" is W-SUN with
\* closed="right": a bin runs from the end of one Sunday to the end of the
\* next, and label="left" names it by the earlier Sunday.
WeekLabel(ts) == 7 * ((ts.day - 1) \div 7)

\* lines 38-43: one row per weekly bin from the first to the last, empty bins
\* included
Resample(rows) ==
    LET labels == {WeekLabel(rows[i].timestamp) : i \in DOMAIN rows}
        first == CHOOSE l \in labels : \A m \in labels : l <= m
        last == CHOOSE l \in labels : \A m \in labels : m <= l
    IN [w \in 1..((last - first) \div 7 + 1) |->
           [week |-> first + 7 * (w - 1),
            count |-> Cardinality({i \in DOMAIN rows :
                          WeekLabel(rows[i].timestamp) = first + 7 * (w - 1)})]]

RECURSIVE SumSeq(_)
SumSeq(s) == IF s = <<>> THEN 0 ELSE s[Len(s)] + SumSeq(SubSeq(s, 1, Len(s) - 1))

\* np.polyfit(x, y, 1) for x = 0, 1, ..., n-1: the least-squares line
\* y = (sn / sd) * x + (cn / cd), with sd > 0 and cd > 0
polyfit(y) ==
    LET n == Len(y)
        sx == SumSeq([i \in DOMAIN y |-> i - 1])
        sy == SumSeq(y)
        sxx == SumSeq([i \in DOMAIN y |-> (i - 1) * (i - 1)])
        sxy == SumSeq([i \in DOMAIN y |-> (i - 1) * y[i]])
        sd == n * sxx - sx * sx
        sn == n * sxy - sx * sy
    IN [slope |-> Rat(sn, sd), intercept |-> Rat(sy * sd - sn * sx, n * sd)]

\* lines 59-65 with the slope compared by >= and <=
TrendAtThreshold(slope, mean_count) ==
    IF RatGE(slope, Rat(1, 10)) /\ RatGE(slope, Rat(2 * mean_count.num, 100 * mean_count.den))
    THEN "rising"
    ELSE IF RatGE(Rat(-slope.num, slope.den), Rat(1, 10))
            /\ RatGE(Rat(-slope.num, slope.den),
                     Rat(2 * mean_count.num, 100 * mean_count.den))
    THEN "declining"
    ELSE "stable"

\* lines 59-65: slope_threshold = max(0.1, mean_count * 0.02)
Trend(slope, mean_count) ==
    IF RatGT(slope, Rat(1, 10)) /\ RatGT(slope, Rat(2 * mean_count.num, 100 * mean_count.den))
    THEN "rising"
    ELSE IF RatGT(Rat(-slope.num, slope.den), Rat(1, 10))
            /\ RatGT(Rat(-slope.num, slope.den),
                     Rat(2 * mean_count.num, 100 * mean_count.den))
    THEN "declining"
    ELSE "stable"

\* round(x, 1) in tenths, halves to the even tenth
RoundTenths(x) ==
    LET n == 10 * x.num
        q == n \div x.den
        r == n % x.den
    IN IF 2 * r > x.den \/ (2 * r = x.den /\ q % 2 = 1) THEN q + 1 ELSE q

\* line 76 without the max
Unclamped(tenths) == tenths

\* line 76: max(0.0, ...)
ClampAtZero(tenths) == Max(0, tenths)

\* lines 73-81: predicted_count is a number of tenths over 10
Extrapolate(weekly, fit, horizon_weeks) ==
    [i \in 1..horizon_weeks |->
        LET pred_x == Len(weekly) - 1 + i
            pred == Rat(fit.slope.num * pred_x * fit.intercept.den
                          + fit.intercept.num * fit.slope.den,
                        fit.slope.den * fit.intercept.den)
        IN [week |-> weekly[Len(weekly)].week + 7 * i,
            predicted_count |-> Rat(ClampAtZero(RoundTenths(pred)), 10)]]

forecast_skill(d, skill_arg, horizon_weeks) ==
    LET skill == strip(skill_arg)
        filtered == SelectSeq(d, LAMBDA r : has_skill(r.skill_tags, skill))
        weekly == Resample(filtered)
        y == [i \in DOMAIN weekly |-> weekly[i].count]
        fit == polyfit(y)
    IN IF d = <<>> \/ skill = <<>> \/ filtered = <<>>
       THEN empty_result
       ELSE IF Len(weekly) < 2
       THEN [historical |-> weekly, forecast |-> <<>>, trend |-> "stable"]
       ELSE [historical |-> weekly,
             forecast |-> Extrapolate(weekly, fit, horizon_weeks),
             trend |-> Trend(fit.slope, Rat(SumSeq(y), Len(y)))]

-----------------------------------------------------------------------------
(* forecast_skill on bounded inputs.                                       *)

TrendRow(day, tags) == Row("u1", <<"N">>, TS(day, 0), <<"a">>, tags)

TrendRows ==
    {TrendRow(day, tags) : day \in {1, 7, 8, 22}, tags \in {<<"a">>, <<"b", ";", " ", "a">>}}
      \cup {TrendRow(15, <<"b">>)}

\* a dataframe with counts[w] records of skill a on the Monday of week w
RECURSIVE WeeklyRows(_)
WeeklyRows(counts) ==
    IF counts = <<>> THEN <<>>
    ELSE WeeklyRows(SubSeq(counts, 1, Len(counts) - 1))
           \o [i \in 1..counts[Len(counts)] |-> TrendRow(7 * Len(counts) - 6, <<"a">>)]

BusyWeeks == {<<10, 20, 30>>, <<30, 20, 10>>, <<24, 26, 25>>, <<24, 25, 25>>}

TrendSkills == {<<"a">>, <<" ", "b">>, <<" ">>}
TrendHorizons == {-1, 0, 1, 2}

InitTrend ==
    /\ csv = <<>>
    /\ df \in SeqsUpTo(TrendRows, MaxTrendRecords) \cup {WeeklyRows(c) : c \in BusyWeeks}
    /\ config = None
    /\ NoOutputs

CallForecastSkill ==
    /\ \E skill \in TrendSkills, h \in TrendHorizons :
         trend_out' = [skill |-> skill, horizon_weeks |-> h,
                       result |-> forecast_skill(df, skill, h)]
    /\ UNCHANGED <<csv, df, config, bot_out, graph_out, cluster_out, overview_out>>

NextTrend == CallForecastSkill

SpecTrend == InitTrend /\ [][NextTrend]_vars

-----------------------------------------------------------------------------
(* config.py, services/ingest.py and main.py                               *)

BOT_POSTS_PER_DAY_THRESHOLD == 40
BOT_DUPLICATE_TEXT_THRESHOLD == Rat(75, 100)

\* the module app.config as apply_bot_filter would read it
AppConfig ==
    [BOT_POSTS_PER_DAY_THRESHOLD |-> Rat(BOT_POSTS_PER_DAY_THRESHOLD, 1),
     BOT_DUPLICATE_TEXT_THRESHOLD |-> BOT_DUPLICATE_TEXT_THRESHOLD]

\* .str.strip() and .str.lower() on a value of a column: missing stays missing
StrStrip(v) == IF v = NA THEN NA ELSE strip(v)
StrLower(v) == IF v = NA THEN NA ELSE lower(v)

\* ingest_csv, lines 40-50. A timestamp that does not parse becomes NaT and
\* its row is dropped. ingestion_time (utcnow) is read by nothing and left out.
ingest_csv(rows) ==
    LET normalized == [i \in DOMAIN rows |->
            [user_id |-> rows[i].user_id,
             region |-> StrStrip(rows[i].region),
             timestamp |-> rows[i].timestamp,
             source |-> StrStrip(StrLower(rows[i].source)),
             raw_text |-> rows[i].raw_text,
             skill_tags |-> IF rows[i].skill_tags = NA THEN <<>> ELSE rows[i].skill_tags,
             engagement |-> rows[i].engagement,
             ingestion_type |-> "csv"]]
    IN SelectSeq(normalized, LAMBDA r : r.timestamp.valid)

\* get_overview, lines 44-52: total_skills counts the distinct pieces of
\* split(";") as they are, neither stripped nor filtered
get_overview(d) ==
    [total_records |-> Len(d),
     total_users |-> Cardinality({d[i].user_id : i \in DOMAIN d}),
     total_regions |-> Cardinality({d[i].region : i \in DOMAIN d} \ {NA}),
     total_skills |->
        Cardinality(UNION {Range(split(d[i].skill_tags, ";")) : i \in DOMAIN d})]

\* skill_graph, lines 53-66
skill_graph(d) ==
    LET built == build_skill_graph(d)
    IN [top_skills |-> built.top_skills, top_synergies |-> built.top_pairs]

\* regional_clusters, lines 68-70: every outcome
regional_clusters(d, n_clusters) == cluster_regions(d, n_clusters)

\* skill_trend, lines 71-73
skill_trend(d, skill, horizon_weeks) == forecast_skill(d, skill, horizon_weeks)

-----------------------------------------------------------------------------
(* The application on bounded CSV files.                                   *)

\* the rows of one user posting the same text over and over
SpamRows == 5

CsvRow(u, reg, ts, text, tags) ==
    [user_id |-> u, region |-> reg, timestamp |-> ts, source |-> <<"B", " ">>,
     raw_text |-> text, skill_tags |-> tags, engagement |-> 1]

CsvRows ==
    { CsvRow("u1", <<" ", "N">>, TS(1, 0), <<"a">>, <<"a", ";", "b">>),
      CsvRow("u2", <<"S">>, TS(8, 0), <<"b">>, <<"b", ";", " ">>),
      CsvRow("u2", <<"S", " ">>, TS(9, 0), <<"a", " ", "b">>, NA),
      CsvRow("u1", <<"N">>, NaT, <<"b">>, <<"a">>) }

Spam == [i \in 1..SpamRows |->
            CsvRow("u3", <<"E">>, TS(2, i), <<"b", " ", "b">>, <<"a", ";", "z">>)]

CsvFiles == {rows \o spam : rows \in SeqsUpTo(CsvRows, MaxCsvRows), spam \in {<<>>, Spam}}

Init ==
    /\ csv \in CsvFiles
    /\ df = NoDataFrame
    /\ config = AppConfig
    /\ NoOutputs

\* startup_event, lines 22-31
startup_event ==
    /\ df = NoDataFrame
    /\ df' = ingest_csv(csv)
    /\ UNCHANGED <<csv, config, bot_out, graph_out, cluster_out, trend_out, overview_out>>

\* GET /dashboard/overview
ServeOverview ==
    /\ df # NoDataFrame
    /\ overview_out' = get_overview(df)
    /\ UNCHANGED <<csv, df, config, bot_out, graph_out, cluster_out, trend_out>>

\* GET /dashboard/skills/graph
ServeSkillGraph ==
    /\ df # NoDataFrame
    /\ graph_out' = skill_graph(df)
    /\ UNCHANGED <<csv, df, config, bot_out, cluster_out, trend_out, overview_out>>

\* GET /dashboard/clusters?n_clusters=n
ServeRegionalClusters ==
    /\ df # NoDataFrame
    /\ \E n \in {1, 3} :
         \E out \in regional_clusters(df, n) :
            cluster_out' = [n_clusters |-> n, raised |-> out.raised, k |-> out.k,
                            result |-> out.result]
    /\ UNCHANGED <<csv, df, config, bot_out, graph_out, trend_out, overview_out>>

\* GET /dashboard/trends?skill=s&horizon_weeks=h
ServeSkillTrend ==
    /\ df # NoDataFrame
    /\ \E skill \in {<<"a">>, <<"b">>}, h \in {1} :
         trend_out' = [skill |-> skill, horizon_weeks |-> h,
                       result |-> skill_trend(df, skill, h)]
    /\ UNCHANGED <<csv, df, config, bot_out, graph_out, cluster_out, overview_out>>

Next ==
    \/ startup_event
    \/ ServeOverview
    \/ ServeSkillGraph
    \/ ServeRegionalClusters
    \/ ServeSkillTrend

Spec == Init /\ [][Next]_vars

-----------------------------------------------------------------------------
(* Claims about apply_bot_filter, build_skill_graph and cluster_regions.   *)

\* The records build_skill_graph reads, and what they hold: the set of skills
\* of each record, by record.
TagRecords == DropNA(SkillTagsColumn(df))
SkillSets == [i \in DOMAIN TagRecords |-> Range(ParseTags(TagRecords[i]))]
SkillsIn(sk) == UNION {sk[i] : i \in DOMAIN sk}
RecordsWithBoth(sk, a, b) == {i \in DOMAIN sk : a \in sk[i] /\ b \in sk[i]}
Partners(sk, s) == {t \in SkillsIn(sk) \ {s} : \E i \in DOMAIN sk : s \in sk[i] /\ t \in sk[i]}
AllSkills == SkillsIn(SkillSets)
HasEdge(G, a, b) == a \in Range(G.nodes) /\ b \in Range(G.adj[a])

\* C3: for every two skills a and b the graph has the edge {a, b} exactly when
\* a differs from b and some record's tag list holds both; the edge's weight
\* is the number of records whose tag list holds both, a skill repeated in one
\* tag list counting the record once; no edge joins a skill to itself.
C3_EdgesAreCoOccurrences ==
    graph_out # None =>
        LET G == graph_out.G
            sk == SkillSets
            all == SkillsIn(sk)
        IN /\ \A a \in all, b \in all :
                LET both == RecordsWithBoth(sk, a, b)
                IN /\ HasEdge(G, a, b) <=> (a # b /\ both # {})
                   /\ {a, b} \in DOMAIN G.weight <=> (a # b /\ both # {})
                   /\ HasEdge(G, a, b) => G.weight[{a, b}] = Cardinality(both)
           /\ Range(G.nodes) \subseteq all
           /\ \A n \in Range(G.nodes) : Len(G.adj[n]) = Cardinality(Range(G.adj[n]))

\* an edge of weight 2, one of its records naming a skill twice
C3_Witness ==
    /\ graph_out # None
    /\ \E e \in DOMAIN graph_out.G.weight :
          /\ graph_out.G.weight[e] = 2
          /\ \E i \in DOMAIN TagRecords :
                /\ e \subseteq SkillSets[i]
                /\ Len(ParseTags(TagRecords[i])) > Cardinality(SkillSets[i])

\* C4 as stated: the nodes of the graph are all the distinct skills observed,
\* including skills that only appear alone in their records.
C4_NodesAreAllSkills ==
    graph_out # None => Range(graph_out.G.nodes) = AllSkills

\* C4 amended: the nodes of the graph are the skills that co-occur with
\* another skill in at least one record; a skill that only ever appears alone
\* is not a node.
C4_NodesAreCoOccurringSkills ==
    graph_out # None =>
        LET sk == SkillSets
        IN /\ Range(graph_out.G.nodes) = {s \in SkillsIn(sk) : Partners(sk, s) # {}}
           /\ Len(graph_out.G.nodes) = Cardinality(Range(graph_out.G.nodes))

\* a graph with nodes, built from records that also hold a lone skill
C4_Witness ==
    /\ graph_out # None
    /\ graph_out.G.nodes # <<>>
    /\ \E s \in AllSkills : Partners(SkillSets, s) = {}

\* Orders on skills and pairs, read off the records.
MinOf(S) == CHOOSE i \in S : \A j \in S : i <= j
FirstRecordWith(sk, s) == MinOf({i \in DOMAIN sk : s \in sk[i]})
FirstPlaceIn(list, s) == MinOf({k \in DOMAIN list : list[k] = s})
\* s is read before t when the records are read in input order, each tag list
\* from left to right
ReadBefore(sk, s, t) ==
    LET i == FirstRecordWith(sk, s)
        j == FirstRecordWith(sk, t)
    IN i < j \/ (i = j /\ FirstPlaceIn(ParseTags(TagRecords[i]), s)
                            < FirstPlaceIn(ParseTags(TagRecords[i]), t))
FirstRecordWithBoth(sk, a, b) == MinOf(RecordsWithBoth(sk, a, b))
\* the first record in which s stands with another skill
FirstPairedRecord(sk, s) ==
    MinOf({i \in DOMAIN sk : s \in sk[i] /\ Cardinality(sk[i]) >= 2})
\* s became a node before t: its first record with a partner comes earlier,
\* or it is the same record and s sorts before t
AddedBefore(sk, s, t) ==
    LET i == FirstPairedRecord(sk, s)
        j == FirstPairedRecord(sk, t)
    IN i < j \/ (i = j /\ StrLess(s, t))
\* of the two skills of a pair, the one that became a node first
Earlier(sk, a, b) == IF AddedBefore(sk, a, b) THEN a ELSE b
Lesser(a, b) == IF StrLess(a, b) THEN a ELSE b
Greater(a, b) == IF StrLess(a, b) THEN b ELSE a
\* the pair {a, b} was first counted before the pair {c, d}
CountedBefore(sk, a, b, c, d) ==
    LET i == FirstRecordWithBoth(sk, a, b)
        j == FirstRecordWithBoth(sk, c, d)
    IN \/ i < j
       \/ /\ i = j
          /\ \/ StrLess(Lesser(a, b), Lesser(c, d))
             \/ Lesser(a, b) = Lesser(c, d) /\ StrLess(Greater(a, b), Greater(c, d))
\* G.edges() yields {a, b} before {c, d}
EdgeBefore(sk, a, b, c, d) ==
    LET p == Earlier(sk, a, b)
        q == Earlier(sk, c, d)
    IN AddedBefore(sk, p, q) \/ (p = q /\ CountedBefore(sk, a, b, c, d))
PairedSkills(sk) == {s \in SkillsIn(sk) : Partners(sk, s) # {}}
CoOccurringPairs(sk) ==
    {e \in {{a, b} : a \in SkillsIn(sk), b \in SkillsIn(sk)} :
        Cardinality(e) = 2 /\ \E i \in DOMAIN sk : e \subseteq sk[i]}

\* C9 as stated: top_skills holds at most 10 entries by degree descending, a
\* skill read earlier in the input coming first among equal degrees; top_pairs
\* holds at most 10 pairs by weight descending, a pair that co-occurs first in
\* an earlier record coming first among equal weights.
C9_TiesInFirstEncounteredOrder ==
    graph_out # None =>
        LET sk == SkillSets
            ts == graph_out.top_skills
            tp == graph_out.top_pairs
        IN /\ Len(ts) <= TopN
           /\ \A i \in DOMAIN ts, j \in DOMAIN ts :
                i < j => \/ ts[i].degree > ts[j].degree
                         \/ /\ ts[i].degree = ts[j].degree
                            /\ ReadBefore(sk, ts[i].skill, ts[j].skill)
           /\ Len(tp) <= TopN
           /\ \A i \in DOMAIN tp, j \in DOMAIN tp :
                i < j => \/ tp[i].weight > tp[j].weight
                         \/ /\ tp[i].weight = tp[j].weight
                            /\ FirstRecordWithBoth(sk, tp[i].skill_1, tp[i].skill_2)
                                 <= FirstRecordWithBoth(sk, tp[j].skill_1, tp[j].skill_2)

\* C9 amended: top_skills holds the first 10 (or all, if fewer) of the skills
\* that have a partner, by degree descending, equal degrees in the order the
\* skills became nodes (by the first record in which the skill stands with
\* another skill, skills of one record in ascending string order); top_pairs
\* holds the first 10 (or all) co-occurring pairs by weight descending, equal
\* weights in the graph's edge order (by the endpoint that became a node
\* first, then in the order the pairs were first counted), skill_1 being that
\* endpoint.
C9_TiesInGraphOrder ==
    graph_out # None =>
        LET sk == SkillSets
            ts == graph_out.top_skills
            tp == graph_out.top_pairs
            paired == PairedSkills(sk)
            pairs == CoOccurringPairs(sk)
            deg == [s \in paired |-> Cardinality(Partners(sk, s))]
            SkillAbove(s, t) ==
                deg[s] > deg[t] \/ (deg[s] = deg[t] /\ AddedBefore(sk, s, t))
            wt == [e \in pairs |-> Cardinality({i \in DOMAIN sk : e \subseteq sk[i]})]
            PairAbove(a, b, c, d) ==
                \/ wt[{a, b}] > wt[{c, d}]
                \/ wt[{a, b}] = wt[{c, d}] /\ EdgeBefore(sk, a, b, c, d)
        IN /\ Len(ts) = Min(TopN, Cardinality(paired))
           /\ \A i \in DOMAIN ts :
                /\ ts[i].skill \in paired
                /\ ts[i].degree = deg[ts[i].skill]
                /\ \A j \in DOMAIN ts : i < j => SkillAbove(ts[i].skill, ts[j].skill)
           /\ \A s \in paired \ {ts[k].skill : k \in DOMAIN ts} :
                SkillAbove(ts[Len(ts)].skill, s)
           /\ Len(tp) = Min(TopN, Cardinality(pairs))
           /\ \A i \in DOMAIN tp :
                /\ {tp[i].skill_1, tp[i].skill_2} \in pairs
                /\ tp[i].weight = wt[{tp[i].skill_1, tp[i].skill_2}]
                /\ tp[i].skill_1 = Earlier(sk, tp[i].skill_1, tp[i].skill_2)
                /\ \A j \in DOMAIN tp :
                      i < j => PairAbove(tp[i].skill_1, tp[i].skill_2,
                                         tp[j].skill_1, tp[j].skill_2)
           /\ \A e \in pairs \ {{tp[k].skill_1, tp[k].skill_2} : k \in DOMAIN tp} :
                \E c \in e : \E d \in e \ {c} :
                    PairAbove(tp[Len(tp)].skill_1, tp[Len(tp)].skill_2, c, d)

\* both lists are cut at 10, each holds a tie, and one tie of top_skills is
\* not in reading order
C9_Witness ==
    /\ graph_out # None
    /\ Len(graph_out.top_skills) = TopN
    /\ Len(graph_out.top_pairs) = TopN
    /\ Cardinality(PairedSkills(SkillSets)) > TopN
    /\ Cardinality(CoOccurringPairs(SkillSets)) > TopN
    /\ \E i \in DOMAIN graph_out.top_skills, j \in DOMAIN graph_out.top_skills :
          /\ i < j
          /\ graph_out.top_skills[i].degree = graph_out.top_skills[j].degree
          /\ ReadBefore(SkillSets, graph_out.top_skills[j].skill, graph_out.top_skills[i].skill)
    /\ \E i \in DOMAIN graph_out.top_pairs, j \in DOMAIN graph_out.top_pairs :
          i < j /\ graph_out.top_pairs[i].weight = graph_out.top_pairs[j].weight

RegionsOf(d) == {d[i].region : i \in DOMAIN d}

\* C5: for a requested cluster count of at least 1, cluster_regions returns a
\* list in which every distinct region of the input appears in exactly one
\* entry, each cluster_id lies in [0, k), and k is the smaller of the
\* requested count and the number of distinct regions.
C5_EveryRegionClustered ==
    (cluster_out # None /\ cluster_out.n_clusters >= 1) =>
        LET res == cluster_out.result
            k == Min(cluster_out.n_clusters, Cardinality(RegionsOf(df)))
        IN /\ ~cluster_out.raised
           /\ \A reg \in RegionsOf(df) :
                Cardinality({i \in DOMAIN res : res[i].region = reg}) = 1
           /\ \A i \in DOMAIN res : res[i].cluster_id \in 0..(k - 1)
           /\ cluster_out.k = k

\* the records forecast_skill counts for the skill it was asked about
MatchingRecords ==
    {i \in DOMAIN df : has_skill(df[i].skill_tags, strip(trend_out.skill))}

\* C6: a horizon of 0 gives an empty forecast; with fewer than 2 weekly
\* buckets the trend is "stable" and the forecast is empty; every
\* predicted_count is at least 0.
C6_ForecastEdgeCases ==
    trend_out # None =>
        LET res == trend_out.result
        IN /\ trend_out.horizon_weeks = 0 => res.forecast = <<>>
           /\ Len(res.historical) < 2 => (res.trend = "stable" /\ res.forecast = <<>>)
           /\ \A i \in DOMAIN res.forecast : res.forecast[i].predicted_count.num >= 0
           /\ Len(res.forecast) = IF Len(res.historical) < 2 THEN 0
                                  ELSE Max(trend_out.horizon_weeks, 0)

\* a declining series whose extrapolation falls below zero is reported as 0
C6_Witness ==
    /\ trend_out # None
    /\ trend_out.result.trend = "declining"
    /\ Len(trend_out.result.forecast) = 2
    /\ trend_out.result.forecast[1].predicted_count.num = 0
    /\ trend_out.result.forecast[2].predicted_count.num = 0

\* C7: every matching record is counted in the bucket whose week_start_date d
\* satisfies d <= record date < d + 7 days: a record dated on a bucket's
\* week_start_date counts in that bucket.
C7_BucketsLeftClosed ==
    trend_out # None =>
        LET hist == trend_out.result.historical
        IN /\ \A b \in DOMAIN hist :
                hist[b].count = Cardinality({i \in MatchingRecords :
                    hist[b].week <= df[i].timestamp.day
                      /\ df[i].timestamp.day < hist[b].week + 7})
           /\ \A i \in MatchingRecords :
                \E b \in DOMAIN hist :
                    hist[b].week <= df[i].timestamp.day
                      /\ df[i].timestamp.day < hist[b].week + 7

\* The least-squares slope of the counts against 0, 1, 2, ..., from the
\* deviations from the means: num / den with den > 0, both scaled by n * n.
CountsOf(hist) == [i \in DOMAIN hist |-> hist[i].count]
SlopeNum(y) ==
    SumSeq([i \in DOMAIN y |->
        (Len(y) * (i - 1) - SumSeq([j \in DOMAIN y |-> j - 1])) * (Len(y) * y[i] - SumSeq(y))])
SlopeDen(y) ==
    SumSeq([i \in DOMAIN y |->
        (Len(y) * (i - 1) - SumSeq([j \in DOMAIN y |-> j - 1]))
          * (Len(y) * (i - 1) - SumSeq([j \in DOMAIN y |-> j - 1]))])
\* num / den > max(1/10, 2/100 * mean) for den > 0, mean = sum / n
Exceeds(num, den, sum, n) == 10 * num > den /\ 50 * n * num > den * sum

\* C8: with at least 2 weekly buckets the trend is "rising" exactly when the
\* least-squares slope is greater than max(0.1, 0.02 * mean_count),
\* "declining" exactly when it is less than minus that, "stable" otherwise;
\* weekly counts [10, 20, 30] give "rising" and a first forecast of 40.0.
C8_TrendFromSlope ==
    (trend_out # None /\ Len(trend_out.result.historical) >= 2) =>
        LET res == trend_out.result
            y == CountsOf(res.historical)
            num == SlopeNum(y)
            den == SlopeDen(y)
            sum == SumSeq(y)
        IN /\ res.trend = "rising" <=> Exceeds(num, den, sum, Len(y))
           /\ res.trend = "declining" <=> Exceeds(-num, den, sum, Len(y))
           /\ res.trend \in {"rising", "declining", "stable"}
           /\ (y = <<10, 20, 30>> /\ trend_out.horizon_weeks >= 1) =>
                 /\ res.trend = "rising"
                 /\ RatEQ(res.forecast[1].predicted_count, Rat(40, 1))

\* the weekly counts [10, 20, 30], found rising, with 40.0 forecast next
C8_Witness ==
    /\ trend_out # None
    /\ CountsOf(trend_out.result.historical) = <<10, 20, 30>>
    /\ trend_out.result.trend = "rising"
    /\ Len(trend_out.result.forecast) >= 1
    /\ trend_out.result.forecast[1].predicted_count = Rat(400, 10)

\* the ingested records passed through apply_bot_filter under app.config
FilteredFirst(d) ==
    LET cleaned == apply_bot_filter(d, AppConfig).cleaned_df
    IN [i \in DOMAIN cleaned |-> InputColumns(cleaned[i])]

\* C10: what the application serves is computed from the cleaned record set
\* of the bot filter only: the graph, the clustering and the forecast are
\* those of the ingested records with every record of a flagged user removed.
C10_ServedFromCleanedRecords ==
    df # NoDataFrame =>
        LET cleaned == FilteredFirst(df)
            built == build_skill_graph(cleaned)
        IN /\ graph_out # None =>
                graph_out = [top_skills |-> built.top_skills,
                             top_synergies |-> built.top_pairs]
           /\ cluster_out # None =>
                \E out \in cluster_regions(cleaned, cluster_out.n_clusters) :
                    /\ out.raised = cluster_out.raised
                    /\ out.result = cluster_out.result
           /\ trend_out # None =>
                trend_out.result
                    = forecast_skill(cleaned, trend_out.skill, trend_out.horizon_weeks)

=============================================================================
